---- MODULE Spec2Model ----
(***************************************************************************)
(* A model of the LLM code-debloat tool: the provider dispatcher           *)
(* (llm_handler.py), the response extractor, the single-file pipeline     *)
(* (main.py, code_processor.py, metrics_recorder.py), the metrics recorder *)
(* on its own, and the batch driver (batch_processor.py).                  *)
(*                                                                         *)
(* Text is a sequence of characters.  The word "python" is one element of  *)
(* a text (it is matched only as a whole by str.split) and counts for six  *)
(* characters in len().                                                    *)
(***************************************************************************)
EXTENDS Integers, Sequences, FiniteSets, TLC

VARIABLES
    \* ---- LLMHandler and one optimize_code invocation
    env,            \* names of the environment variables that hold a key
    clients,        \* self.clients: the providers with a client handle
    model_name,     \* optimize_code's model_name argument
    code,           \* optimize_code's code argument
    pc,             \* position inside optimize_code
    attempt,        \* _call_claude's loop variable
    call_log,       \* outcome of every transport call of this invocation
    sleeps,         \* every time.sleep of this invocation, in order
    ret,            \* what optimize_code handed to its caller
    \* ---- _extract_code_from_response on its own
    response_text,  \* the text given to the extractor
    extracted,      \* what the extractor returned for it
    \* ---- process_file
    files,          \* the file system: path -> content, or NoFile
    table,          \* the persisted metrics table (the Excel file)
    p_pc,           \* position inside process_file
    p_in,           \* process_file's arguments
    p_loc,          \* process_file's locals
    p_ret,          \* process_file's return value
    \* ---- MetricsRecorder used directly
    m_obj,          \* a MetricsRecorder has been constructed
    m_start,        \* the table before the first call
    m_last,         \* the last call on the recorder, and the table before it
    m_count,        \* record_metrics calls that have returned normally
    m_fault,        \* some write to the table has failed
    \* ---- process_batch_from_csv
    b_pc,           \* position inside process_batch_from_csv
    b_in,           \* its arguments: the CSV file, llm_model, export_dir
    b_i,            \* the row the for loop is at (from 1)
    b_log,          \* what happened to each row the loop has taken, in order
    b_sleeps,       \* every time.sleep of the batch, in order
    b_ret,          \* how process_batch_from_csv ended
    \* ---- sample/bloated_code.py: calculate_statistics
    data_input,     \* the list given to calculate_statistics, after the call
    stats,          \* the call's argument as given, and what it returned
    \* ---- two writers of one metrics table
    w_overlap,      \* some call began while the other writer's was under way
    w_pc,           \* each writer's position inside record_metrics
    w_df,           \* each writer's df: the rows it has read
    \* ---- config.py
    model_configs,  \* the global MODEL_CONFIGS
    cfg_loaded,     \* the last 'models' table a load found, else the initial one
    cfg_last        \* the last call on config.py and how it ended

llm_vars == <<env, clients, model_name, code, pc, attempt, call_log, sleeps, ret>>
ext_vars == <<response_text, extracted>>
proc_vars == <<files, table, p_pc, p_in, p_loc, p_ret>>
met_vars == <<m_obj, m_start, m_last, m_count, m_fault>>
batch_vars == <<b_pc, b_in, b_i, b_log, b_sleeps, b_ret>>
st_vars == <<data_input, stats>>
cw_vars == <<w_overlap, w_pc, w_df>>
cfg_vars == <<model_configs, cfg_loaded, cfg_last>>
vars == <<env, clients, model_name, code, pc, attempt, call_log, sleeps, ret,
          response_text, extracted, files, table, p_pc, p_in, p_loc, p_ret,
          m_obj, m_start, m_last, m_count, m_fault, b_pc, b_in, b_i, b_log, b_sleeps, b_ret,
          data_input, stats, w_overlap, w_pc, w_df, model_configs, cfg_loaded, cfg_last>>

----------------------------------------------------------------------------
(* Bounds of the model.                                                    *)

\* The longest response text given to the extractor, in pieces of Pieces.
MaxPieces == 6

----------------------------------------------------------------------------
(* Text: str.split, str.strip, len, max(key=len).                          *)

\* A backtick is written "tick"; the fence marker is three of them.
FENCE == <<"tick", "tick", "tick">>
PYFENCE == FENCE \o <<"python">>
Whitespace == {" ", "\n"}

\* len(s): "python" is six characters.
RECURSIVE StrLen(_)
StrLen(s) ==
    IF s = <<>> THEN 0
    ELSE (IF Head(s) = "python" THEN 6 ELSE 1) + StrLen(Tail(s))

\* s.startswith(sep)
StartsWith(s, sep) ==
    /\ Len(sep) <= Len(s)
    /\ \A i \in 1..Len(sep) : s[i] = sep[i]

\* s.split(sep): the pieces between the non-overlapping occurrences of sep,
\* found left to right.  SplitFrom scans s; piece is the piece being read.
RECURSIVE SplitFrom(_, _, _)
SplitFrom(s, sep, piece) ==
    IF s = <<>> THEN <<piece>>
    ELSE IF StartsWith(s, sep)
    THEN <<piece>> \o SplitFrom(SubSeq(s, Len(sep) + 1, Len(s)), sep, <<>>)
    ELSE SplitFrom(Tail(s), sep, Append(piece, Head(s)))

Split(s, sep) == SplitFrom(s, sep, <<>>)

RECURSIVE LStrip(_)
LStrip(s) ==
    IF s # <<>> /\ Head(s) \in Whitespace THEN LStrip(Tail(s)) ELSE s

RECURSIVE RStrip(_)
RStrip(s) ==
    IF s # <<>> /\ s[Len(s)] \in Whitespace
    THEN RStrip(SubSeq(s, 1, Len(s) - 1)) ELSE s

\* s.strip()
Strip(s) == RStrip(LStrip(s))

\* [block for i, block in enumerate(code_blocks) if i % 2 == 1]
\* (enumerate counts from 0, so these are the even positions of a TLA+ sequence).
OddBlocks(code_blocks) ==
    [k \in 1..(Len(code_blocks) \div 2) |-> code_blocks[2 * k]]

\* max(cands, key=len): the first of the longest.
MaxByLen(cands) ==
    cands[CHOOSE i \in 1..Len(cands) :
            /\ \A j \in 1..Len(cands) : StrLen(cands[j]) <= StrLen(cands[i])
            /\ \A j \in 1..(i - 1) : StrLen(cands[j]) < StrLen(cands[i])]

\* The language-tagged branch: code_blocks[1].split(FENCE)[0].strip()
TaggedBlockToEnd(code_blocks) == Strip(code_blocks[2])
TaggedBlock(code_blocks) == Strip(Split(code_blocks[2], FENCE)[1])

\* The generic branch: max(code_candidates, key=len).strip()
GenericBlock(code_blocks) == Strip(MaxByLen(OddBlocks(code_blocks)))

\* No block was found: return response_text
NoBlockStripped(text) == Strip(text)
NoBlock(text) == text

\* LLMHandler._extract_code_from_response
_extract_code_from_response(text) ==
    LET tagged == Split(text, PYFENCE)
        generic == Split(text, FENCE)
    IN  IF Len(tagged) > 1 THEN TaggedBlock(tagged)
        ELSE IF Len(generic) > 1 /\ OddBlocks(generic) # <<>>
             THEN GenericBlock(generic)
             ELSE NoBlock(text)

----------------------------------------------------------------------------
(* The extractor applied to every text of at most MaxPieces pieces.        *)

Pieces == {FENCE, <<"tick">>, <<"python">>, <<"x">>, <<"y">>, <<" ">>}

\* The least number of pieces a text is made of.
PieceCount(text) == Len(text) - 2 * (Len(Split(text, FENCE)) - 1)

\* A provider's response grows by one piece and is given to the extractor.
Respond(p) ==
    /\ PieceCount(response_text \o p) <= MaxPieces
    /\ response_text' = response_text \o p
    /\ extracted' = _extract_code_from_response(response_text')
    /\ UNCHANGED <<llm_vars, proc_vars, met_vars, batch_vars, st_vars, cw_vars, cfg_vars>>

----------------------------------------------------------------------------
(* LLMHandler: construction and optimize_code.                             *)

CLAUDE == "claude-3-7-sonnet"
GEMINI == "gemini-2-0-flash"
OPENAI == "gpt-4o"
DEEPSEEK == "deepseek-r1"

\* The ids optimize_code routes to a provider (the if/elif chain).
SupportedModels == {CLAUDE, GEMINI, OPENAI, DEEPSEEK}

\* The ids a caller can pass: the routed ones, the id the single-file CLI and
\* the provider table use for Claude, and an id known nowhere.
ModelNames == SupportedModels \cup {"claude-3-5-sonnet", "no-such-model"}

EnvKeys == {"ANTHROPIC_API_KEY", "OPENAI_API_KEY", "GOOGLE_API_KEY", "DEEPSEEK_API_KEY"}

\* LLMHandler._initialize_clients: a client for each key that is set.
\* (DeepSeek has no client: _call_deepseek reads its key directly.)
_initialize_clients(e) ==
    {c \in {"claude", "openai", "gemini"} :
        \/ c = "claude" /\ "ANTHROPIC_API_KEY" \in e
        \/ c = "openai" /\ "OPENAI_API_KEY" \in e
        \/ c = "gemini" /\ "GOOGLE_API_KEY" \in e}

\* The first check of each _call_*: is the provider usable.
HasClientUnchecked(m) == TRUE
HasClient(m) ==
    \/ m = CLAUDE /\ "claude" \in clients
    \/ m = GEMINI /\ "gemini" \in clients
    \/ m = OPENAI /\ "openai" \in clients
    \/ m = DEEPSEEK /\ "DEEPSEEK_API_KEY" \in env

\* The source codes given to optimize_code: three lines, one line, empty.
Codes == {<<"x", "\n", "y", "\n", "x">>, <<"x">>, <<>>}

\* The texts a provider answers with: a tagged block, no block at all (the
\* one-line source code itself), a generic block longer than every source.
Responses ==
    { PYFENCE \o <<"\n", "x", "\n", "y", "\n">> \o FENCE,
      <<"x">>,
      <<"y", " ">> \o FENCE \o <<"x", "\n", "y", "\n", "x", "\n", "y">> \o FENCE }

\* What one transport call can do: fail (any exception), or answer.
TransportOutcomes ==
    {[ok |-> FALSE, text |-> <<>>]} \cup {[ok |-> TRUE, text |-> r] : r \in Responses}

NoReturn == [kind |-> "none", value |-> <<>>]
Returned(v) == [kind |-> "value", value |-> v]
Raised == [kind |-> "raised", value |-> <<>>]

max_retries == 3
retry_delay == 2

\* _call_claude: if attempt < max_retries - 1
ShouldRetryOffByOne(a) == a <= max_retries - 1
ShouldRetry(a) == a < max_retries - 1

\* _call_claude: sleep_time = retry_delay * (2 ** attempt)
sleep_time_shifted(a) == retry_delay * (2 ^ (a + 1))
sleep_time(a) == retry_delay * (2 ^ a)

\* optimize_code's except clause: log, return the original code.
optimize_code_reraise(c) == Raised
optimize_code_except(c) == Returned(c)

\* optimize_code up to the provider call: route on model_name; a missing
\* client or key and an unrouted id raise ValueError inside the try.
optimize_code(m, c) ==
    /\ model_name' = m
    /\ code' = c
    /\ attempt' = 0
    /\ call_log' = <<>>
    /\ sleeps' = <<>>
    /\ IF m \in SupportedModels /\ HasClient(m)
       THEN /\ pc' = m
            /\ ret' = NoReturn
       ELSE /\ pc' = "done"
            /\ ret' = optimize_code_except(c)
    /\ UNCHANGED <<env, clients>>

\* One pass of _call_claude's retry loop: the transport call and what
\* follows it, up to the sleep.
_call_claude ==
    /\ pc = CLAUDE
    /\ \E o \in TransportOutcomes :
        /\ call_log' = Append(call_log, o)
        /\ IF o.ok
           THEN /\ ret' = Returned(_extract_code_from_response(o.text))
                /\ pc' = "done"
           ELSE IF ShouldRetry(attempt)
           THEN /\ ret' = ret
                /\ pc' = "claude_sleep"
           ELSE /\ ret' = optimize_code_except(code)
                /\ pc' = "done"
    /\ UNCHANGED <<env, clients, model_name, code, attempt, sleeps, ext_vars, st_vars, cw_vars, cfg_vars, met_vars, batch_vars, proc_vars>>

\* time.sleep(sleep_time), then the next pass of the loop.
_call_claude_sleep ==
    /\ pc = "claude_sleep"
    /\ sleeps' = Append(sleeps, sleep_time(attempt))
    /\ attempt' = attempt + 1
    /\ pc' = CLAUDE
    /\ UNCHANGED <<env, clients, model_name, code, call_log, ret, ext_vars, st_vars, cw_vars, cfg_vars, met_vars, batch_vars, proc_vars>>

\* _call_gemini, _call_openai, _call_deepseek after the key check: one
\* transport call; its exception is logged and raised again.
SingleCall(m) ==
    /\ pc = m
    /\ \E o \in TransportOutcomes :
        /\ call_log' = Append(call_log, o)
        /\ ret' = IF o.ok THEN Returned(_extract_code_from_response(o.text))
                          ELSE optimize_code_except(code)
    /\ pc' = "done"
    /\ UNCHANGED <<env, clients, model_name, code, attempt, sleeps, ext_vars, st_vars, cw_vars, cfg_vars, met_vars, batch_vars, proc_vars>>

_call_gemini == SingleCall(GEMINI)
_call_openai == SingleCall(OPENAI)
_call_deepseek == SingleCall(DEEPSEEK)

----------------------------------------------------------------------------
(* Files, the metrics table, and process_file.                             *)

CodeFile == "a.py"
ExportFile == "out.py"
Paths == {"a.py", "a.py.bak", "out.py", "out.py.bak"}

\* save_code: backup_path = f"{file_path}.bak"
BackupPath(path) == IF path = "a.py" THEN "a.py.bak" ELSE "out.py.bak"

NoFile == [exists |-> FALSE, data |-> <<>>]
File(d) == [exists |-> TRUE, data |-> d]

\* CodeProcessor.count_lines_of_code: len(code.split('\n'))
count_lines_of_code(c) == Len(Split(c, <<"\n">>))

\* No file at the Excel path.
NoTable == [exists |-> FALSE, valid |-> FALSE, columns |-> {}, rows |-> <<>>]

\* ensure_excel_exists: the columns a table must have.
required_columns ==
    {"Timestamp", "File Name", "LLM Model", "LOC Before", "LOC After", "LOC Reduction (%)"}

\* ensure_excel_exists leaves the file alone: it is there, pd.read_excel can
\* read it (valid), and no required column is missing.
KeepsReadable(t) == t.exists /\ t.valid
Keeps(t) == t.exists /\ t.valid /\ required_columns \subseteq t.columns

\* MetricsRecorder._create_new_excel: a table with the columns and no row.
EmptyTable == [exists |-> TRUE, valid |-> TRUE, columns |-> required_columns, rows |-> <<>>]

\* The parameters record_metrics declares, and the keywords process_file
\* passes to it.
record_metrics_params ==
    {"file_name", "llm_model", "loc_before", "loc_after", "loc_reduction_percentage"}
PassedKeywords ==
    {"file_name", "llm_model", "loc_before", "loc_after", "loc_reduction_percentage",
     "prompt_text"}

\* A path is the sequence of its components; main() and the batch driver
\* pass normalize_file_path(name), an absolute path.
normalize_file_path(name) == <<"work", name>>

\* os.path.basename: the last component of the path, as a path.
basename(path) == <<path[Len(path)]>>

\* A percentage is the exact fraction num / den, with den > 0.
\* process_file: ((original_loc - optimized_loc) / original_loc) * 100
\* if original_loc > 0 else 0
loc_reduction_percentage_of_optimized(original_loc, optimized_loc) ==
    IF optimized_loc > 0
    THEN [num |-> (original_loc - optimized_loc) * 100, den |-> optimized_loc]
    ELSE [num |-> 0, den |-> 1]
loc_reduction_percentage(original_loc, optimized_loc) ==
    IF original_loc > 0
    THEN [num |-> (original_loc - optimized_loc) * 100, den |-> original_loc]
    ELSE [num |-> 0, den |-> 1]

\* round(q, 2), in hundredths: the nearest hundredth, a tie going to the
\* even one.
round2(q) ==
    LET n == q.num * 100
        f == n \div q.den
        r == n % q.den
    IN  IF 2 * r < q.den THEN f
        ELSE IF 2 * r > q.den THEN f + 1
        ELSE IF f % 2 = 0 THEN f ELSE f + 1

\* record_metrics, the row it builds from its arguments (the timestamp
\* column is left out).
new_row_unrounded(a) ==
    [file_name |-> basename(a.file_name), llm_model |-> a.llm_model,
     loc_before |-> a.loc_before, loc_after |-> a.loc_after,
     reduction |-> (a.loc_reduction_percentage.num * 100) \div a.loc_reduction_percentage.den]
new_row(a) ==
    [file_name |-> basename(a.file_name), llm_model |-> a.llm_model,
     loc_before |-> a.loc_before, loc_after |-> a.loc_after,
     reduction |-> round2(a.loc_reduction_percentage)]

\* MetricsRecorder.record_metrics, the write succeeding: read the table (a
\* new one if the file is absent), append the row, write it all back.
record_metrics_replace(t, a) ==
    [exists |-> TRUE, valid |-> TRUE,
     columns |-> (IF t.exists THEN t.columns ELSE {}) \cup required_columns,
     rows |-> IF t.exists /\ t.rows # <<>>
              THEN Append(SubSeq(t.rows, 1, Len(t.rows) - 1), new_row(a))
              ELSE <<new_row(a)>>]
record_metrics(t, a) ==
    [exists |-> TRUE, valid |-> TRUE,
     columns |-> (IF t.exists THEN t.columns ELSE {}) \cup required_columns,
     rows |-> Append(IF t.exists THEN t.rows ELSE <<>>, new_row(a))]

\* process_file's except clause: log, return False.
process_file_except == "False"

\* process_file's arguments as its two callers pass them.  main() passes
\* the parsed command line as args and the export path as export_path.
\* process_batch_from_csv passes four positional arguments, so its export
\* path is bound to args and export_path keeps its default, None ("").
Namespace == "Namespace"
MainCall(f, m, e) ==
    [code_file |-> f, llm_model |-> m, args |-> Namespace, export_path |-> e,
     caller |-> "main"]
BatchCall(f, m, export_dir) ==
    [code_file |-> f, llm_model |-> m,
     args |-> IF export_dir THEN ExportFile ELSE "",
     export_path |-> "", caller |-> "batch"]
ProcessInputs ==
    {MainCall(CodeFile, m, e) : m \in ModelNames, e \in {"", ExportFile}}
    \cup {BatchCall(CodeFile, m, d) : m \in ModelNames, d \in BOOLEAN}

NoLocals ==
    [original_code |-> <<>>, original_loc |-> 0, optimized_code |-> <<>>,
     optimized_loc |-> 0, save_path |-> "", rows_before |-> <<>>,
     read_ok |-> FALSE, saved |-> FALSE, io_fault |-> FALSE,
     loc_reduction_percentage |-> [num |-> 0, den |-> 1], computed |-> FALSE,
     files_before |-> <<>>, table_before |-> <<>>]

\* The locals at the start of a call, with the persisted state it found.
StartLocals == [NoLocals EXCEPT !.files_before = files, !.table_before = table]

\* process_file, the construction of its components: LLMHandler() reads the
\* keys, MetricsRecorder() makes sure the table exists with its columns.
process_file(in) ==
    /\ p_pc = "idle"
    /\ p_in' = in
    /\ clients' = _initialize_clients(env)
    /\ \E io_ok \in BOOLEAN :
        IF Keeps(table)
        THEN /\ io_ok
             /\ table' = table
             /\ p_loc' = [StartLocals EXCEPT !.rows_before = table.rows]
             /\ p_pc' = "read"
             /\ p_ret' = p_ret
        ELSE IF io_ok
        THEN /\ table' = EmptyTable
             /\ p_loc' = StartLocals
             /\ p_pc' = "read"
             /\ p_ret' = p_ret
        ELSE /\ table' = table
             /\ p_loc' = [StartLocals EXCEPT !.io_fault = TRUE]
             /\ p_pc' = "returned"
             /\ p_ret' = process_file_except
    /\ UNCHANGED <<env, model_name, code, pc, attempt, call_log, sleeps, ret, files, ext_vars, st_vars, cw_vars, cfg_vars, met_vars>>

\* Step 1: read_code and count_lines_of_code.
process_file_read ==
    /\ p_pc = "read"
    /\ \E io_ok \in BOOLEAN :
        IF files[p_in.code_file].exists /\ io_ok
        THEN /\ p_loc' = [p_loc EXCEPT
                            !.original_code = files[p_in.code_file].data,
                            !.original_loc = count_lines_of_code(files[p_in.code_file].data),
                            !.read_ok = TRUE]
             /\ p_pc' = "optimize"
             /\ p_ret' = p_ret
        ELSE /\ p_loc' = [p_loc EXCEPT !.io_fault = files[p_in.code_file].exists]
             /\ p_pc' = "returned"
             /\ p_ret' = process_file_except
    /\ UNCHANGED <<llm_vars, files, table, p_in, ext_vars, st_vars, cw_vars, cfg_vars, met_vars, batch_vars>>

\* Step 2: the call of optimize_code.
process_file_optimize ==
    /\ p_pc = "optimize"
    /\ optimize_code(p_in.llm_model, p_loc.original_code)
    /\ p_pc' = "optimizing"
    /\ UNCHANGED <<files, table, p_in, p_loc, p_ret, ext_vars, st_vars, cw_vars, cfg_vars, met_vars, batch_vars>>

\* optimize_code has returned: count the lines, choose the save path.
process_file_optimized ==
    /\ p_pc = "optimizing"
    /\ pc = "done"
    /\ p_loc' = [p_loc EXCEPT
                    !.optimized_code = ret.value,
                    !.optimized_loc = count_lines_of_code(ret.value),
                    !.save_path = IF p_in.export_path # "" THEN p_in.export_path
                                  ELSE p_in.code_file]
    /\ p_pc' = IF ret.kind = "raised" THEN "returned" ELSE "save_backup"
    /\ p_ret' = IF ret.kind = "raised" THEN process_file_except ELSE p_ret
    /\ UNCHANGED <<llm_vars, files, table, p_in, ext_vars, st_vars, cw_vars, cfg_vars, met_vars, batch_vars>>

\* How a write can end: done, not begun (the open failed), or begun and
\* broken off (the file is left truncated).
WriteOutcomes == {"ok", "open_failed", "write_failed"}

\* backup.write(original.read()): what the backup holds after the copy,
\* whatever it held before.
backup_content_first(fs, path, bak) ==
    IF fs[bak].exists THEN fs[bak].data ELSE fs[path].data
backup_content(fs, path, bak) == fs[path].data

\* save_code, the backup: copy the file at file_path to backup_path.
save_code_backup ==
    /\ p_pc = "save_backup"
    /\ LET path == p_loc.save_path
           bak == BackupPath(path)
       IN  IF ~files[path].exists
           THEN /\ files' = files
                /\ p_loc' = p_loc
                /\ p_pc' = "save_restore"
           ELSE \E w \in WriteOutcomes :
                /\ files' = IF w = "ok"
                            THEN [files EXCEPT ![bak] = File(backup_content(files, path, bak))]
                            ELSE IF w = "write_failed" THEN [files EXCEPT ![bak] = File(<<>>)]
                            ELSE files
                /\ p_loc' = [p_loc EXCEPT !.io_fault = (w # "ok")]
                /\ p_pc' = IF w = "ok" THEN "save_write" ELSE "save_restore"
    /\ UNCHANGED <<llm_vars, table, p_in, p_ret, ext_vars, st_vars, cw_vars, cfg_vars, met_vars, batch_vars>>

\* save_code, the write of the new code to file_path.
save_code_write ==
    /\ p_pc = "save_write"
    /\ LET path == p_loc.save_path
       IN  \E w \in WriteOutcomes :
            /\ files' = IF w = "ok" THEN [files EXCEPT ![path] = File(p_loc.optimized_code)]
                        ELSE IF w = "write_failed" THEN [files EXCEPT ![path] = File(<<>>)]
                        ELSE files
            /\ p_loc' = [p_loc EXCEPT !.io_fault = (w # "ok"), !.saved = (w = "ok")]
            /\ p_pc' = IF w = "ok" THEN "record" ELSE "save_restore"
    /\ UNCHANGED <<llm_vars, table, p_in, p_ret, ext_vars, st_vars, cw_vars, cfg_vars, met_vars, batch_vars>>

\* save_code's except clause: restore file_path from the backup if there is
\* one, then raise again; process_file catches it.
save_code_restore ==
    /\ p_pc = "save_restore"
    /\ LET path == p_loc.save_path
           bak == BackupPath(path)
       IN  IF ~files[bak].exists
           THEN /\ files' = files
                /\ p_loc' = p_loc
           ELSE \E w \in WriteOutcomes :
                /\ files' = IF w = "ok" THEN [files EXCEPT ![path] = File(files[bak].data)]
                            ELSE IF w = "write_failed" THEN [files EXCEPT ![path] = File(<<>>)]
                            ELSE files
                /\ p_loc' = [p_loc EXCEPT !.io_fault = (p_loc.io_fault \/ w # "ok")]
    /\ p_pc' = "returned"
    /\ p_ret' = process_file_except
    /\ UNCHANGED <<llm_vars, table, p_in, ext_vars, st_vars, cw_vars, cfg_vars, met_vars, batch_vars>>

\* The arguments process_file gives record_metrics, and the row they make.
MetricsArgs ==
    [file_name |-> normalize_file_path(p_in.code_file), llm_model |-> p_in.llm_model,
     loc_before |-> p_loc.original_loc, loc_after |-> p_loc.optimized_loc,
     loc_reduction_percentage |->
        loc_reduction_percentage(p_loc.original_loc, p_loc.optimized_loc)]
MetricsRow == new_row(MetricsArgs)

\* A table file whose write broke off: it is there and cannot be read.
BrokenTable == [exists |-> TRUE, valid |-> FALSE, columns |-> {}, rows |-> <<>>]

\* Steps 4 and 5 and the return: the percentage is computed, the prompt
\* text is read from args, and record_metrics is called with the keywords
\* of PassedKeywords.  args has no custom_prompt attribute when it is not
\* the parsed command line (AttributeError); a keyword record_metrics does
\* not declare is a TypeError; both are caught by process_file's except
\* clause.
process_file_record ==
    /\ p_pc = "record"
    /\ LET pct == loc_reduction_percentage(p_loc.original_loc, p_loc.optimized_loc)
       IN  \E w \in WriteOutcomes :
        IF p_in.args # Namespace \/ ~(PassedKeywords \subseteq record_metrics_params)
        THEN /\ w = "ok"
             /\ table' = table
             /\ p_loc' = [p_loc EXCEPT !.loc_reduction_percentage = pct,
                                       !.computed = TRUE]
             /\ p_ret' = process_file_except
        ELSE /\ table' = IF w = "ok" THEN record_metrics(table, MetricsArgs)
                         ELSE IF w = "write_failed" THEN BrokenTable
                         ELSE table
             /\ p_loc' = [p_loc EXCEPT !.loc_reduction_percentage = pct,
                                       !.computed = TRUE,
                                       !.io_fault = (w # "ok")]
             /\ p_ret' = IF w = "ok" THEN "True" ELSE process_file_except
    /\ p_pc' = "returned"
    /\ UNCHANGED <<llm_vars, files, p_in, ext_vars, st_vars, cw_vars, cfg_vars, met_vars, batch_vars>>

----------------------------------------------------------------------------
(* MetricsRecorder on its own: constructed and asked to record, any number *)
(* of times, by one writer.                                                *)

MaxRecords == 3

\* What one record_metrics call is given: a full path or a bare name, and
\* percentages that need rounding up, no rounding, and rounding at a tie.
MetricsCalls ==
    { [file_name |-> f, llm_model |-> GEMINI, loc_before |-> t[1], loc_after |-> t[2],
       loc_reduction_percentage |-> [num |-> t[3], den |-> t[4]]] :
        f \in {normalize_file_path(CodeFile), <<CodeFile>>},
        t \in {<<3, 1, 200, 3>>, <<1, 2, -100, 1>>, <<32, 31, 25, 8>>, <<800, 797, 3, 8>>} }

NoCall == [op |-> "none", args |-> <<>>, raised |-> FALSE, io |-> "ok", before |-> NoTable]

\* MetricsRecorder(excel_path): ensure_excel_exists keeps a file it can read
\* with the required columns and replaces anything else by an empty table;
\* a failure of that write is raised.
ensure_excel_exists ==
    /\ \E w \in WriteOutcomes :
        LET keep == Keeps(table)
        IN  /\ keep => w = "ok"
            /\ table' = IF keep THEN table
                        ELSE IF w = "ok" THEN EmptyTable
                        ELSE IF w = "write_failed" THEN BrokenTable
                        ELSE table
            /\ m_obj' = (m_obj \/ w = "ok")
            /\ m_last' = [op |-> "construct", args |-> <<>>, raised |-> (w # "ok"),
                          io |-> w, before |-> table]
            /\ m_fault' = (m_fault \/ w # "ok")
    /\ UNCHANGED <<m_start, m_count, llm_vars, ext_vars, st_vars, cw_vars, cfg_vars, files, p_pc, p_in, p_loc, p_ret,
                   batch_vars>>

\* record_metrics called on a constructed recorder: a file that cannot be
\* read, or a write that fails, is logged and raised again.
record_metrics_call ==
    /\ m_obj
    /\ m_count < MaxRecords
    /\ \E a \in MetricsCalls, w \in WriteOutcomes :
        LET unreadable == table.exists /\ ~table.valid
            raised == unreadable \/ w # "ok"
        IN  /\ unreadable => w = "ok"
            /\ table' = IF unreadable THEN table
                        ELSE IF w = "ok" THEN record_metrics(table, a)
                        ELSE IF w = "write_failed" THEN BrokenTable
                        ELSE table
            /\ m_last' = [op |-> "record", args |-> a, raised |-> raised, io |-> w,
                          before |-> table]
            /\ m_count' = IF raised THEN m_count ELSE m_count + 1
            /\ m_fault' = (m_fault \/ raised)
    /\ UNCHANGED <<m_obj, m_start, llm_vars, ext_vars, st_vars, cw_vars, cfg_vars, files, p_pc, p_in, p_loc, p_ret,
                   batch_vars>>

----------------------------------------------------------------------------
(* process_batch_from_csv: the rows of a CSV file, one process_file call   *)
(* for each row whose file exists.                                         *)

MaxRows == 2

\* A row's code_file cell: the file of the model, a file that is not
\* there, or None, which csv.DictReader gives for a row that stops before
\* the code_file column.
GoneFile == "gone.py"
None == "None"
Cells == {CodeFile, GoneFile, None}

\* The CSV file: whether it can be opened and read, whether its header has
\* a code_file column, and the cells of its rows.
CsvFiles ==
    { [readable |-> FALSE, has_code_file |-> FALSE, rows |-> <<>>],
      [readable |-> TRUE, has_code_file |-> FALSE, rows |-> <<>>] }
    \cup { [readable |-> TRUE, has_code_file |-> TRUE, rows |-> r] :
                r \in UNION {[1..k -> Cells] : k \in 0..MaxRows} }

BatchInputs == [csv : CsvFiles, llm_model : {GEMINI, "no-such-model"}, export_dir : BOOLEAN]

\* os.path.exists
Exists(f) == f \in Paths /\ files[f].exists

\* time.sleep(2) after each process_file call
batch_delay == 2

\* The open of the CSV file and the check of its header: a file that
\* cannot be read ends in the outer except clause, a header without
\* code_file in the early return.
process_batch_from_csv ==
    /\ b_pc = "idle"
    /\ \E b \in BatchInputs :
        /\ b_in' = [csv |-> b.csv, llm_model |-> b.llm_model, export_dir |-> b.export_dir,
                    files_before |-> files, table_before |-> table]
        /\ IF b.csv.readable /\ b.csv.has_code_file
           THEN /\ b_pc' = "loop"
                /\ b_i' = 1
                /\ b_ret' = b_ret
           ELSE /\ b_pc' = "done"
                /\ b_i' = b_i
                /\ b_ret' = "returned"
    /\ b_log' = <<>>
    /\ b_sleeps' = <<>>
    /\ UNCHANGED <<llm_vars, ext_vars, st_vars, cw_vars, cfg_vars, proc_vars, met_vars>>

\* The for loop ends: after the last row, or in the outer except clause
\* when normalize_file_path is given None (TypeError outside the inner try).
batch_end ==
    /\ b_pc = "loop"
    /\ \/ /\ b_i > Len(b_in.csv.rows)
          /\ b_log' = b_log
       \/ /\ b_i <= Len(b_in.csv.rows)
          /\ b_in.csv.rows[b_i] = None
          /\ b_log' = Append(b_log, [row |-> b_i, what |-> "TypeError"])
    /\ b_pc' = "done"
    /\ b_ret' = "returned"
    /\ UNCHANGED <<b_in, b_i, b_sleeps, llm_vars, ext_vars, st_vars, cw_vars, cfg_vars, proc_vars, met_vars>>

\* A row whose file does not exist: logged, continue.
batch_skip_row ==
    /\ b_pc = "loop"
    /\ b_i <= Len(b_in.csv.rows)
    /\ b_in.csv.rows[b_i] # None
    /\ ~Exists(b_in.csv.rows[b_i])
    /\ b_log' = Append(b_log, [row |-> b_i, what |-> "not found"])
    /\ b_i' = b_i + 1
    /\ UNCHANGED <<b_pc, b_in, b_sleeps, b_ret, llm_vars, ext_vars, st_vars, cw_vars, cfg_vars, proc_vars, met_vars>>

\* A row whose file exists: process_file is called for it.
batch_process_row ==
    /\ b_pc = "loop"
    /\ b_i <= Len(b_in.csv.rows)
    /\ b_in.csv.rows[b_i] # None
    /\ Exists(b_in.csv.rows[b_i])
    /\ process_file(BatchCall(b_in.csv.rows[b_i], b_in.llm_model, b_in.export_dir))
    /\ b_log' = Append(b_log, [row |-> b_i, what |-> "process_file"])
    /\ b_pc' = "process_file"
    /\ UNCHANGED <<b_in, b_i, b_sleeps, b_ret>>

\* process_file has returned: sleep, then the next row.  The log keeps
\* whether the call's save_code went through.
batch_row_done ==
    /\ b_pc = "process_file"
    /\ p_pc = "returned"
    /\ b_log' = [b_log EXCEPT ![Len(b_log)].what =
                    IF p_loc.saved THEN "saved" ELSE "process_file"]
    /\ b_sleeps' = Append(b_sleeps, batch_delay)
    /\ b_i' = b_i + 1
    /\ b_pc' = "loop"
    /\ p_pc' = "idle"
    /\ UNCHANGED <<b_in, b_ret, llm_vars, ext_vars, st_vars, cw_vars, cfg_vars, files, table, p_in, p_loc, p_ret,
                   met_vars>>

----------------------------------------------------------------------------
(* sample/bloated_code.py: calculate_statistics on a list of integers.     *)
(* A quotient is the exact fraction num / den.                             *)

MaxLen == 3

\* The numbers the lists are made of, and the lists.
Nums == {-3, 0, 1, 2, 7}
Lists == UNION {[1..k -> Nums] : k \in 0..MaxLen}

\* The swap of sorted_data[i] and sorted_data[j].
Swap(l, i, j) == [l EXCEPT ![i] = l[j], ![j] = l[i]]

\* for j in range(i + 1, len(sorted_data)): swap when out of order
RECURSIVE InnerLoop(_, _, _)
InnerLoop(l, i, j) ==
    IF j > Len(l) THEN l
    ELSE InnerLoop(IF l[i] > l[j] THEN Swap(l, i, j) ELSE l, i, j + 1)

\* for i in range(len(sorted_data))
RECURSIVE OuterLoop(_, _)
OuterLoop(l, i) ==
    IF i > Len(l) THEN l ELSE OuterLoop(InnerLoop(l, i, i + 1), i + 1)

\* sorted_data = data_input.copy(), then the two loops.
sorted_data_unsorted(d) == d
sorted_data(d) == OuterLoop(d, 1)

\* total = 0; for item in data_input: total = total + item
RECURSIVE total(_)
total(d) == IF d = <<>> THEN 0 ELSE total(SubSeq(d, 1, Len(d) - 1)) + d[Len(d)]

\* The dictionary calculate_statistics returns.
calculate_statistics(d) ==
    IF d = <<>>
    THEN [count |-> 0, sum |-> 0, mean |-> [num |-> 0, den |-> 1],
          median |-> [num |-> 0, den |-> 1], min |-> 0, max |-> 0]
    ELSE LET counter == Len(d)
             srt == sorted_data(d)
         IN  [count |-> counter,
              sum |-> total(d),
              mean |-> [num |-> total(d), den |-> counter],
              median |-> IF counter % 2 = 0
                         THEN [num |-> srt[counter \div 2] + srt[counter \div 2 + 1],
                               den |-> 2]
                         ELSE [num |-> srt[counter \div 2 + 1], den |-> 1],
              min |-> srt[1],
              max |-> srt[Len(srt)]]

\* One call: the list is only read (the sort works on a copy).
CallStatistics ==
    /\ \E d \in Lists :
        /\ data_input' = d
        /\ stats' = [given |-> d, called |-> TRUE, result |-> calculate_statistics(d)]
    /\ UNCHANGED <<llm_vars, ext_vars, proc_vars, met_vars, batch_vars, cw_vars, cfg_vars>>

----------------------------------------------------------------------------
(* Two writers calling record_metrics on the same Excel file.  A call is   *)
(* two steps on the file: the read of the table, and the write of the      *)
(* table with the new row appended.                                        *)

Writers == {1, 2}

NoFrame == [new_row |-> <<>>, columns |-> {}, df |-> <<>>]

\* record_metrics up to the read: the new row is built, df is the rows of
\* the file, or no rows when there is no file.
record_metrics_read_nothing(t) == <<>>
record_metrics_read(t) == IF t.exists THEN t.rows ELSE <<>>

record_metrics_begin(i) ==
    /\ w_pc[i] = "idle"
    /\ ~(table.exists /\ ~table.valid)
    /\ \E a \in MetricsCalls :
        w_df' = [w_df EXCEPT ![i] = [new_row |-> new_row(a),
                                     columns |-> IF table.exists THEN table.columns ELSE {},
                                     df |-> record_metrics_read(table)]]
    /\ w_pc' = [w_pc EXCEPT ![i] = "read"]
    /\ w_overlap' = (w_overlap \/ \E j \in Writers \ {i} : w_pc[j] = "read")
    /\ UNCHANGED <<llm_vars, ext_vars, proc_vars, met_vars, batch_vars, st_vars, cfg_vars>>

\* pd.concat and df.to_excel: the file becomes df with the new row.
record_metrics_write(i) ==
    /\ w_pc[i] = "read"
    /\ table' = [exists |-> TRUE, valid |-> TRUE,
                 columns |-> w_df[i].columns \cup required_columns,
                 rows |-> Append(w_df[i].df, w_df[i].new_row)]
    /\ w_pc' = [w_pc EXCEPT ![i] = "done"]
    /\ UNCHANGED <<w_overlap, w_df, llm_vars, ext_vars, files, p_pc, p_in, p_loc, p_ret,
                   met_vars, batch_vars, st_vars, cfg_vars>>

WriterBegins == \E i \in Writers : record_metrics_begin(i)
WriterWrites == \E i \in Writers : record_metrics_write(i)

----------------------------------------------------------------------------
(* config.py: the provider table MODEL_CONFIGS, get_model_config and       *)
(* load_config.  An entry of the table stands for its model_id.            *)

\* The ids the single-file command line accepts (main.py), the ids the
\* batch command line accepts (batch_processor.py), and the keys of the
\* provider table (config.py).
MainChoices == {"claude-3-5-sonnet", GEMINI, OPENAI, DEEPSEEK}
BatchChoices == {CLAUDE, GEMINI, OPENAI, DEEPSEEK}
MODEL_CONFIGS == {"claude-3-5-sonnet", GEMINI, OPENAI, DEEPSEEK}

\* MODEL_CONFIGS as the module defines it.
InitialConfigs ==
    [id \in MODEL_CONFIGS |->
        IF id = "claude-3-5-sonnet" THEN "claude-3-5-sonnet-20241022"
        ELSE IF id = GEMINI THEN "gemini-1.5-flash"
        ELSE IF id = OPENAI THEN "gpt-4o"
        ELSE "deepseek-code-r1"]

\* The 'models' tables a configuration file can hold.
FileTables == UNION {[ids -> {"gpt-4o", "gpt-4o-mini"}] : ids \in SUBSET {GEMINI, OPENAI, "new-model"}}

\* The file at config_path: absent, not JSON, JSON without 'models', JSON
\* with a 'models' table.
ConfigFiles ==
    { [exists |-> FALSE, parsable |-> FALSE, has_models |-> FALSE, models |-> <<>>],
      [exists |-> TRUE, parsable |-> FALSE, has_models |-> FALSE, models |-> <<>>],
      [exists |-> TRUE, parsable |-> TRUE, has_models |-> FALSE, models |-> <<>>] }
    \cup { [exists |-> TRUE, parsable |-> TRUE, has_models |-> TRUE, models |-> t] :
                t \in FileTables }

\* The ids asked for.
ConfigIds == MODEL_CONFIGS \cup {CLAUDE, "new-model"}

\* The table a table becomes through load_config on file f.
load_config_merge(t, f) ==
    IF f.exists /\ f.parsable /\ f.has_models
    THEN [id \in DOMAIN t \cup DOMAIN f.models |->
            IF id \in DOMAIN f.models THEN f.models[id] ELSE t[id]]
    ELSE t
load_config(t, f) ==
    IF f.exists /\ f.parsable /\ f.has_models THEN f.models ELSE t

\* What get_model_config hands back for an id.
get_model_config(t, id) ==
    IF id \notin DOMAIN t THEN [raised |-> "ValueError", value |-> ""]
    ELSE [raised |-> "", value |-> t[id]]

NoConfigCall == [op |-> "none", arg |-> <<>>, before |-> InitialConfigs, result |-> <<>>]

CallLoadConfig ==
    /\ \E f \in ConfigFiles :
        /\ model_configs' = load_config(model_configs, f)
        /\ cfg_loaded' = IF f.exists /\ f.parsable /\ f.has_models THEN f.models
                         ELSE cfg_loaded
        /\ cfg_last' = [op |-> "load_config", arg |-> f, before |-> model_configs,
                        result |-> <<>>]
    /\ UNCHANGED <<llm_vars, ext_vars, proc_vars, met_vars, batch_vars, st_vars, cw_vars>>

CallGetModelConfig ==
    /\ \E id \in ConfigIds :
        cfg_last' = [op |-> "get_model_config", arg |-> id, before |-> model_configs,
                     result |-> get_model_config(model_configs, id)]
    /\ UNCHANGED <<model_configs, cfg_loaded, llm_vars, ext_vars, proc_vars, met_vars,
                   batch_vars, st_vars, cw_vars>>

----------------------------------------------------------------------------
(* The dispatcher's properties (specification Spec).                       *)

RECURSIVE SumSeq(_)
SumSeq(q) == IF q = <<>> THEN 0 ELSE Head(q) + SumSeq(Tail(q))

\* The invocation made no transport call, or its last one failed.
ProviderFailed == call_log = <<>> \/ ~call_log[Len(call_log)].ok

\* C1: for every provider id, set of keys and transport outcome,
\* optimize_code returns normally and never raises; when the provider call
\* failed (after the retries, where they apply) or could not be made, it
\* returns exactly the code it was given.
C1_NeverRaisesFallsBack ==
    /\ ret.kind # "raised"
    /\ pc = "done" => ret.kind = "value"
    /\ (pc = "done" /\ ProviderFailed) => ret = Returned(code)

\* Claude's retries are exhausted and the original, non-empty code is back.
C1_Witness ==
    /\ pc = "done"
    /\ model_name = CLAUDE
    /\ Len(call_log) = 3
    /\ ProviderFailed
    /\ code # <<>>
    /\ ret = Returned(code)

\* C2: on the Claude path the sleep after the k-th failed attempt (k = 1, 2)
\* is 2 * 2^(k-1), that is 2 then 4; no sleep follows the third failed
\* attempt; a success on the first, second, third attempt is returned after
\* a total delay of 0, 2, 6.
C2_Backoff ==
    model_name = CLAUDE =>
        /\ Len(sleeps) <= 2
        /\ \A k \in 1..Len(sleeps) : sleeps[k] = 2 * (2 ^ (k - 1))
        /\ (pc = "done" /\ call_log # <<>>) => Len(sleeps) = Len(call_log) - 1
        /\ (pc = "done" /\ ~ProviderFailed) =>
              /\ ret = Returned(_extract_code_from_response(call_log[Len(call_log)].text))
              /\ SumSeq(sleeps) = (CASE Len(call_log) = 1 -> 0
                                     [] Len(call_log) = 2 -> 2
                                     [] OTHER -> 6)

\* Two failures, then a success, after sleeping 2 and 4.
C2_Witness ==
    /\ pc = "done"
    /\ model_name = CLAUDE
    /\ Len(call_log) = 3
    /\ call_log[3].ok
    /\ sleeps = <<2, 4>>
    /\ ret = Returned(_extract_code_from_response(call_log[3].text))

\* C3: one invocation on the Claude path makes at most 3 transport calls and
\* none after a successful one; after the third failure optimize_code
\* returns the original code.  Gemini, OpenAI and DeepSeek make at most one
\* call and never sleep.
C3_BoundedCalls ==
    /\ model_name = CLAUDE =>
        /\ Len(call_log) <= 3
        /\ \A i \in 1..(Len(call_log) - 1) : ~call_log[i].ok
        /\ ~ProviderFailed => pc = "done"
        /\ (Len(call_log) = 3 /\ ProviderFailed) => (pc = "done" /\ ret = Returned(code))
    /\ model_name \in {GEMINI, OPENAI, DEEPSEEK} =>
        /\ Len(call_log) <= 1
        /\ sleeps = <<>>
        /\ call_log # <<>> => pc = "done"

\* The third Claude call has been made and has failed.
C3_Witness ==
    /\ model_name = CLAUDE
    /\ Len(call_log) = 3
    /\ ProviderFailed
    /\ pc = "done"
    /\ ret = Returned(code)

\* C4: an id outside the supported set ends in a configuration failure that
\* is raised, or returned to the caller as a failure, and no transport call
\* is made.
C4_UnknownProviderIsFailure ==
    (pc = "done" /\ model_name \in ModelNames \ SupportedModels) =>
        /\ ret.kind \in {"raised", "failure"}
        /\ call_log = <<>>

\* C17: what optimize_code hands back is marked as failed exactly when the
\* provider call failed or could not be made, so that a fallback to the
\* original code and an answer equal to the original code differ for the
\* caller.
C17_FallbackMarked ==
    pc = "done" => (ProviderFailed <=> ret.kind = "failed")

\* C20: every id a command line accepts or the provider table registers is
\* routed to a provider transport: with every key set, an invocation under
\* such an id makes a transport call.
C20_AcceptedIdsRouted ==
    (pc = "done" /\ env = EnvKeys
        /\ model_name \in MainChoices \cup BatchChoices \cup MODEL_CONFIGS) =>
            call_log # <<>>

\* C22: an invocation makes boundedly many calls and sleeps and ends in one
\* of two states: SUCCESS, reached by a successful call that follows only
\* failed ones (from PENDING or from RETRYING), or FAILED, reached only
\* through RETRYING and EXHAUSTED, that is after the maximum number of
\* attempts, all failed; while retrying, every call so far has failed.
C22_StateMachine ==
    /\ Len(call_log) <= max_retries
    /\ Len(sleeps) <= Len(call_log)
    /\ \A k \in 1..(Len(call_log) - 1) : ~call_log[k].ok
    /\ pc = "claude_sleep" => (call_log # <<>> /\ ProviderFailed)
    /\ pc = "done" =>
            \/ ~ProviderFailed
            \/ /\ Len(call_log) = max_retries
               /\ Len(sleeps) = max_retries - 1

\* The environment variable that holds a provider's key.
KeyOf(m) ==
    IF m = CLAUDE THEN "ANTHROPIC_API_KEY"
    ELSE IF m = GEMINI THEN "GOOGLE_API_KEY"
    ELSE IF m = OPENAI THEN "OPENAI_API_KEY"
    ELSE "DEEPSEEK_API_KEY"

\* C26: whatever keys are absent, the handler is constructed; an
\* invocation for a provider whose key is absent makes no transport call
\* and no sleep and returns the original code; an invocation for a provider
\* whose key is present makes its call, whatever other keys are absent.
C26_AbsentCredential ==
    /\ clients \subseteq {"claude", "openai", "gemini"}
    /\ (pc = "done" /\ model_name \in SupportedModels) =>
            IF KeyOf(model_name) \in env
            THEN call_log # <<>>
            ELSE /\ call_log = <<>>
                 /\ sleeps = <<>>
                 /\ ret = Returned(code)

\* Claude asked without its key while another provider's key is set.
C26_Witness ==
    /\ pc = "done"
    /\ model_name = CLAUDE
    /\ "ANTHROPIC_API_KEY" \notin env
    /\ "GOOGLE_API_KEY" \in env
    /\ call_log = <<>>
    /\ sleeps = <<>>
    /\ code # <<>>
    /\ ret = Returned(code)

----------------------------------------------------------------------------
(* The extractor's properties (specification SpecExtract).                 *)

\* The first position at or after from where sep occurs in text; 0 if none.
FirstAt(text, sep, from) ==
    LET hits == {i \in from..Len(text) : StartsWith(SubSeq(text, i, Len(text)), sep)}
    IN  IF hits = {} THEN 0 ELSE CHOOSE i \in hits : \A j \in hits : i <= j

\* The number of backticks of a text.
Ticks(text) == Cardinality({i \in 1..Len(text) : text[i] = "tick"})

\* The text holds no three consecutive backticks.
NoFence(text) ==
    \A i \in 1..(Len(text) - 2) :
        ~(text[i] = "tick" /\ text[i + 1] = "tick" /\ text[i + 2] = "tick")

\* The fenced blocks of a text, its fence markers paired left to right; an
\* opening marker that is never closed makes no block.
CompleteBlocks(text) ==
    LET seg == Split(text, FENCE)
    IN  [k \in 1..((Len(seg) - 1) \div 2) |-> seg[2 * k]]

\* C5: if the text holds a block tagged python (a fence marker directly
\* followed by python, and a fence marker after it), the extractor returns
\* the first such block: the text from just after the tag up to the next
\* fence marker, trimmed.
C5_FirstTaggedBlock ==
    LET i == FirstAt(response_text, PYFENCE, 1)
        j == FirstAt(response_text, FENCE, i + Len(PYFENCE))
    IN  (i > 0 /\ j > 0) =>
            extracted = Strip(SubSeq(response_text, i + Len(PYFENCE), j - 1))

\* C6: if the text holds no tagged block and several generic blocks, the
\* extractor returns the longest block by character count, trimmed, and the
\* first of the longest when several are as long.
C6_LongestGenericBlock ==
    LET blocks == CompleteBlocks(response_text)
    IN  (FirstAt(response_text, PYFENCE, 1) = 0 /\ Len(blocks) >= 2) =>
            extracted = Strip(MaxByLen(blocks))

\* C30: for every text the extractor's result holds no fence marker (three
\* consecutive backticks), and the extractor applied to its own result
\* returns that result unchanged.
C30_Idempotent ==
    /\ NoFence(extracted)
    /\ _extract_code_from_response(extracted) = extracted

\* A text of four backticks in a row after a block: the result keeps a
\* backtick, and is a block's content rather than the text itself.
C30_Witness ==
    /\ Ticks(response_text) >= 7
    /\ Ticks(extracted) >= 1
    /\ extracted # response_text
    /\ Len(extracted) >= 2

\* C7: for a text with exactly one fenced block (one opening and one closing
\* fence marker and no other backtick, the block tagged python or not, any
\* prose around it) the extractor returns that block's content, without the
\* markers and the tag, trimmed.
C7_SingleBlock ==
    LET seg == Split(response_text, FENCE)
    IN  (Len(seg) = 3 /\ Ticks(response_text) = 6) =>
            extracted = Strip(IF StartsWith(seg[2], <<"python">>)
                              THEN Tail(seg[2]) ELSE seg[2])

\* C8: for a text with exactly one fence marker (an opening marker that is
\* never closed) the marker makes no block: the extractor returns the whole
\* text or the empty text.
C8_DanglingFence ==
    (Len(Split(response_text, FENCE)) = 2 /\ Ticks(response_text) = 3) =>
        extracted \in {response_text, <<>>}

\* C9: for a text with no fence marker the extractor returns the text as it
\* is, neither trimmed nor cut.
C9_NoFence ==
    NoFence(response_text) => extracted = response_text

\* A text with backticks but no fence marker, and whitespace at both ends.
C9_Witness ==
    /\ NoFence(response_text)
    /\ Len(response_text) >= 4
    /\ Head(response_text) = " "
    /\ response_text[Len(response_text)] = " "
    /\ Ticks(response_text) >= 2
    /\ extracted = response_text

----------------------------------------------------------------------------
(* process_file's properties (specification SpecProcess).                  *)

\* C10: process_file never raises; it returns True exactly when the
\* optimized code was written to the save path and one row was appended to
\* the metrics table; when the read, the provider call, the save and the
\* metrics write all succeed it returns True and the table has exactly one
\* new row.
C10_ProcessFileResult ==
    /\ p_ret # "raised"
    /\ p_pc = "returned" =>
        /\ p_ret \in {"True", "False"}
        /\ p_ret = "True" <=>
              /\ p_loc.saved
              /\ files[p_loc.save_path] = File(p_loc.optimized_code)
              /\ table.rows = Append(p_loc.rows_before, MetricsRow)
        /\ (p_loc.read_ok /\ ~ProviderFailed /\ p_loc.saved /\ ~p_loc.io_fault) =>
              /\ p_ret = "True"
              /\ table.valid
              /\ Len(table.rows) = Len(p_loc.rows_before) + 1

----------------------------------------------------------------------------
(* Where the optimized code goes (specification SpecProcess).              *)

\* C11: in batch mode with an export directory, the call the driver makes
\* for a row, when no read or write fails, writes the optimized code to the
\* export path (the directory joined with the file's basename) and leaves
\* the original file as it was, with no .bak made or changed next to it.
C11_BatchExportLeavesOriginal ==
    (/\ p_pc = "returned" /\ p_in.caller = "batch" /\ p_in.args = ExportFile
     /\ p_loc.read_ok /\ ~p_loc.io_fault) =>
        /\ files[p_in.code_file] = p_loc.files_before[p_in.code_file]
        /\ files[BackupPath(p_in.code_file)] =
                p_loc.files_before[BackupPath(p_in.code_file)]
        /\ files[ExportFile] = File(p_loc.optimized_code)

\* C12: in single-file mode with an export path, process_file leaves the
\* input file as it was and, when no read or write fails, the export path
\* holds the optimized code afterwards, whether or not a file was there.
C12_ExportPathWritten ==
    (p_pc = "returned" /\ p_in.caller = "main" /\ p_in.export_path = ExportFile) =>
        /\ files[p_in.code_file] = p_loc.files_before[p_in.code_file]
        /\ (p_loc.read_ok /\ ~p_loc.io_fault) =>
                files[ExportFile] = File(p_loc.optimized_code)

\* save_code has been entered for the input file itself.
InPlaceSave ==
    /\ p_pc \in {"save_write", "save_restore", "record", "returned"}
    /\ p_loc.save_path = p_in.code_file

\* C13: in place, in every state from the start of save_code on in which
\* the input file differs from what it held at the start, the .bak file
\* holds exactly what the input file held at the start.
C13_BackupBeforeOverwrite ==
    (InPlaceSave /\ files[p_in.code_file] # p_loc.files_before[p_in.code_file]) =>
        files[BackupPath(p_in.code_file)] = p_loc.files_before[p_in.code_file]

\* C23: when save_code has failed, in the backup or in the write, the file
\* at file_path holds what it held before the call and the error has gone
\* up to process_file, which returns False.
C23_RestoredAfterFailure ==
    (p_pc = "returned" /\ p_loc.save_path # "" /\ ~p_loc.saved) =>
        /\ files[p_loc.save_path] = p_loc.files_before[p_loc.save_path]
        /\ p_ret = process_file_except

\* C16: the percentage process_file computes is
\* (loc_before - loc_after) / loc_before * 100 when loc_before > 0 (100 and
\* 60 give 40), its denominator is never 0, and it is 0 for an empty input
\* file.
C16_ReductionPercentage ==
    /\ loc_reduction_percentage(100, 60).num = 40 * loc_reduction_percentage(100, 60).den
    /\ p_loc.computed =>
        LET q == p_loc.loc_reduction_percentage
        IN  /\ q.den # 0
            /\ p_loc.original_loc > 0 =>
                    q.num * p_loc.original_loc =
                        (p_loc.original_loc - p_loc.optimized_loc) * 100 * q.den
            /\ p_loc.original_code = <<>> => q.num = 0

\* C28: in every metrics record process_file computes, loc_before and
\* loc_after are at least 0 and the reduction percentage is at most 100,
\* in the arguments of the record and in the row they make.
C28_RecordRanges ==
    p_loc.computed =>
        /\ p_loc.original_loc >= 0
        /\ p_loc.optimized_loc >= 0
        /\ p_loc.loc_reduction_percentage.den > 0
        /\ p_loc.loc_reduction_percentage.num
                <= 100 * p_loc.loc_reduction_percentage.den
        /\ MetricsRow.loc_before >= 0
        /\ MetricsRow.loc_after >= 0
        /\ MetricsRow.reduction <= 10000

\* A record whose optimized code has more lines than the original: the
\* percentage is negative.
C28_Witness ==
    /\ p_pc = "returned"
    /\ p_loc.computed
    /\ p_loc.optimized_loc > p_loc.original_loc
    /\ p_loc.loc_reduction_percentage.num < 0
    /\ MetricsRow.reduction < 0

\* C18: a call of process_file with an id no list knows leaves the code
\* file, every .bak file and the rows of the metrics table as they were,
\* and so does a batch whose CSV has no code_file column.
C18_ConfigErrorLeavesState ==
    /\ (p_pc = "returned" /\ p_in.llm_model = "no-such-model") =>
            /\ files = p_loc.files_before
            /\ table.rows = p_loc.table_before.rows
    /\ (b_pc = "done" /\ ~b_in.csv.has_code_file) =>
            /\ files = b_in.files_before
            /\ table = b_in.table_before

----------------------------------------------------------------------------
(* The batch driver (specification SpecBatch).                             *)

\* C19: process_batch_from_csv never raises; the rows it has taken are the
\* first rows of the CSV in order, a process_file call is running only
\* while the driver waits for it, and when the driver is done with a CSV
\* it could read, it has taken every row.
C19_EveryRowAttempted ==
    /\ b_ret # "raised"
    /\ \A k \in 1..Len(b_log) : b_log[k].row = k
    /\ b_pc # "process_file" => p_pc \in {"idle", "returned"}
    /\ (b_pc = "done" /\ b_in.csv.readable /\ b_in.csv.has_code_file) =>
            Len(b_log) = Len(b_in.csv.rows)

----------------------------------------------------------------------------
(* The metrics table (specification SpecMetrics).                          *)

\* The last row of the table.
LastRow == table.rows[Len(table.rows)]

\* C14: after each record_metrics call that returns, the table is the rows
\* it held before, in order and unchanged, followed by one new row; a
\* MetricsRecorder constructed again on a readable table leaves it as it
\* is; so while no write has failed the table holds the rows it started
\* with followed by one row per call, rows for the same file included.
C14_AppendOnly ==
    /\ (m_last.op = "record" /\ ~m_last.raised) =>
            /\ table.exists /\ table.valid
            /\ Len(table.rows) = Len(m_last.before.rows) + 1
            /\ SubSeq(table.rows, 1, Len(m_last.before.rows)) = m_last.before.rows
    /\ (m_last.op = "construct" /\ m_last.before.exists /\ m_last.before.valid
            /\ required_columns \subseteq m_last.before.columns) =>
            table = m_last.before
    /\ (m_obj /\ ~m_fault /\ (Keeps(m_start) \/ m_start.rows = <<>>)) =>
            /\ Len(table.rows) = Len(m_start.rows) + m_count
            /\ SubSeq(table.rows, 1, Len(m_start.rows)) = m_start.rows

\* A recorder was constructed again after two records for the same file,
\* and both rows are there.
C14_Witness ==
    /\ m_last.op = "construct"
    /\ ~m_fault
    /\ m_start = EmptyTable
    /\ m_count = 2
    /\ Len(table.rows) = 2
    /\ table.rows[1] = table.rows[2]

\* C25: a MetricsRecorder constructed on a file that cannot be read, or
\* that lacks one of the six required columns, leaves an empty table with
\* the required columns in its place, whatever rows were there, and does
\* not raise (the write of the new table succeeding); constructed on a
\* readable file with all required columns it leaves the file as it is.
C25_SchemaDriftReplaces ==
    m_last.op = "construct" =>
        LET b == m_last.before
            drifted == \E c \in required_columns : c \notin b.columns
        IN  /\ (b.exists /\ (~b.valid \/ drifted) /\ m_last.io = "ok") =>
                    /\ table = EmptyTable
                    /\ ~m_last.raised
            /\ (b.exists /\ b.valid /\ ~drifted) =>
                    /\ table = b
                    /\ ~m_last.raised

\* A table with a row and one column missing was replaced by an empty one.
C25_Witness ==
    /\ m_last.op = "construct"
    /\ m_last.before.valid
    /\ m_last.before.rows # <<>>
    /\ Cardinality(required_columns \ m_last.before.columns) = 1
    /\ table = EmptyTable
    /\ ~m_last.raised

\* Two rows of the batch were saved in place, one after the other, and
\* the second call has returned.
SavedTwice ==
    /\ Len(b_log) = 2
    /\ \A k \in 1..2 : b_log[k].what = "saved"
    /\ p_loc.save_path = CodeFile

\* The content of the code file before the first run of the batch.
FirstContent == b_in.files_before[CodeFile].data

----------------------------------------------------------------------------
(* Two concurrent record_metrics calls (specification SpecWriters).        *)

\* The rows the two writers built, in either order.
BothRows ==
    { <<w_df[ij[1]].new_row, w_df[ij[2]].new_row>> :
        ij \in {x \in Writers \X Writers : x[1] # x[2]} }

\* C24: when two record_metrics calls on the same file have both returned
\* and neither read the file between the other's read and write, the table
\* holds its starting rows followed by both new rows.  (That an interleaved
\* pair can lose a row is the state C24_LostUpdate, which is reached.)
C24_SerializedKeepsBoth ==
    ((\A i \in Writers : w_pc[i] = "done") /\ ~w_overlap) =>
        \E pair \in BothRows :
            table.rows = record_metrics_read(m_start) \o pair

\* Both calls returned, their steps interleaved, and the table holds the
\* starting rows and only one of the two new rows.
C24_LostUpdate ==
    /\ \A i \in Writers : w_pc[i] = "done"
    /\ w_overlap
    /\ Len(table.rows) = Len(m_start.rows) + 1
    /\ \E i \in Writers : table.rows = Append(m_start.rows, w_df[i].new_row)

----------------------------------------------------------------------------
(* The provider table (specification SpecConfig).                          *)

\* The file of a load_config call held a 'models' table.
HeldModels(f) == f.exists /\ f.parsable /\ f.has_models

\* C27: after any sequence of get_model_config and load_config calls the
\* provider table is the initial table or the whole 'models' table of the
\* most recent load whose file held one; get_model_config, and a load of a
\* file that is missing, unparsable or without 'models', leave the table as
\* it was; get_model_config returns the table's entry for an id of the
\* table and raises ValueError for any other id.
C27_TableReplacedWhole ==
    /\ model_configs = cfg_loaded
    /\ cfg_last.op = "load_config" =>
            IF HeldModels(cfg_last.arg)
            THEN model_configs = cfg_last.arg.models
            ELSE model_configs = cfg_last.before
    /\ cfg_last.op = "get_model_config" =>
            /\ model_configs = cfg_last.before
            /\ IF cfg_last.arg \in DOMAIN model_configs
               THEN /\ cfg_last.result.raised = ""
                    /\ cfg_last.result.value = model_configs[cfg_last.arg]
               ELSE cfg_last.result.raised = "ValueError"

\* A load replaced a table by one that lacks one of its ids and has a new
\* one, and a later get_model_config of the lost id raised.
C27_Witness ==
    /\ cfg_last.op = "get_model_config"
    /\ cfg_last.arg \in DOMAIN InitialConfigs \ DOMAIN model_configs
    /\ "new-model" \in DOMAIN model_configs
    /\ cfg_last.result.raised = "ValueError"

\* What a returned record_metrics call stored, next to what it was given:
\* the model and both line counts as passed, the reduction the hundredth
\* nearest to the percentage.
StoredAsPassed ==
    LET a == m_last.args
        q == a.loc_reduction_percentage
        d == LastRow.reduction * q.den - q.num * 100
    IN  /\ LastRow.llm_model = a.llm_model
        /\ LastRow.loc_before = a.loc_before
        /\ LastRow.loc_after = a.loc_after
        /\ 2 * (IF d < 0 THEN -d ELSE d) <= q.den

\* C15: after record_metrics the last row read back has the model and the
\* line counts that were passed, the percentage rounded to 2 decimal
\* places, and as file name the last component of the file_name passed.
C15_RoundTripBasename ==
    (m_last.op = "record" /\ ~m_last.raised) =>
        /\ StoredAsPassed
        /\ LastRow.file_name = <<m_last.args.file_name[Len(m_last.args.file_name)]>>

\* C15 as stated: the file name read back is the file_name passed, full
\* paths included.
C15_RoundTrip ==
    (m_last.op = "record" /\ ~m_last.raised) =>
        /\ StoredAsPassed
        /\ LastRow.file_name = m_last.args.file_name

\* A full path was recorded with a percentage that is not a whole number
\* of hundredths.
C15_Witness ==
    /\ m_last.op = "record"
    /\ ~m_last.raised
    /\ Len(m_last.args.file_name) > 1
    /\ LastRow.reduction * m_last.args.loc_reduction_percentage.den
            # m_last.args.loc_reduction_percentage.num * 100

----------------------------------------------------------------------------
(* calculate_statistics (specification SpecStats).                         *)

\* How many elements of d are below v, and how many are at most v.
Below(d, v) == Cardinality({i \in 1..Len(d) : d[i] < v})
AtMost(d, v) == Cardinality({i \in 1..Len(d) : d[i] <= v})

\* The k-th smallest element of d, counted with repeats.
KthSmallest(d, k) ==
    CHOOSE v \in {d[i] : i \in 1..Len(d)} : Below(d, v) < k /\ k <= AtMost(d, v)

\* C21: for a non-empty list calculate_statistics returns its length, the
\* total, the total over the length, the smallest and largest element and
\* the middle element of the list in order (the mean of the two middle
\* ones for an even length); for the empty list every field is 0; the
\* list given is left as it was.
C21_Statistics ==
    stats.called =>
        LET d == stats.given
            r == stats.result
            n == Len(d)
        IN  /\ data_input = d
            /\ d = <<>> =>
                    /\ r.count = 0 /\ r.sum = 0 /\ r.min = 0 /\ r.max = 0
                    /\ r.mean.num = 0 /\ r.median.num = 0
            /\ d # <<>> =>
                    /\ r.count = n
                    /\ r.sum = SumSeq(d)
                    /\ r.mean.num * n = SumSeq(d) * r.mean.den
                    /\ \A i \in 1..n : r.min <= d[i] /\ d[i] <= r.max
                    /\ \E i \in 1..n : r.min = d[i]
                    /\ \E i \in 1..n : r.max = d[i]
                    /\ n % 2 = 1 =>
                            r.median.num = KthSmallest(d, (n + 1) \div 2) * r.median.den
                    /\ n % 2 = 0 =>
                            r.median.num * 2 =
                                (KthSmallest(d, n \div 2) + KthSmallest(d, n \div 2 + 1))
                                    * r.median.den

\* A list of even length, not in order, whose median is not an element.
C21_Witness ==
    /\ stats.called
    /\ Len(stats.given) = 2
    /\ stats.given[1] > stats.given[2]
    /\ stats.result.median.num % 2 = 1
    /\ data_input = stats.given

----------------------------------------------------------------------------
(* The specifications.                                                     *)

\* No handler has been called.
LLMIdle ==
    /\ model_name = ""
    /\ code = <<>>
    /\ pc = "ready"
    /\ attempt = 0
    /\ call_log = <<>>
    /\ sleeps = <<>>
    /\ ret = NoReturn

ExtIdle ==
    /\ response_text = <<>>
    /\ extracted = <<>>

ProcIdle ==
    /\ files = [p \in Paths |-> NoFile]
    /\ table = NoTable
    /\ p_pc = "idle"
    /\ p_in = MainCall(CodeFile, "", "")
    /\ p_loc = NoLocals
    /\ p_ret = "none"

MetIdle ==
    /\ m_obj = FALSE
    /\ m_start = table
    /\ m_last = NoCall
    /\ m_count = 0
    /\ m_fault = FALSE

NoBatch ==
    [csv |-> <<>>, llm_model |-> "", export_dir |-> FALSE,
     files_before |-> <<>>, table_before |-> <<>>]

BatchIdle ==
    /\ b_pc = "idle"
    /\ b_in = NoBatch
    /\ b_i = 0
    /\ b_log = <<>>
    /\ b_sleeps = <<>>
    /\ b_ret = "none"

NoStats == [given |-> <<>>, called |-> FALSE, result |-> <<>>]

StatsIdle ==
    /\ data_input = <<>>
    /\ stats = NoStats

WritersIdle ==
    /\ w_overlap = FALSE
    /\ w_pc = [i \in Writers |-> "idle"]
    /\ w_df = [i \in Writers |-> NoFrame]

ConfigIdle ==
    /\ model_configs = InitialConfigs
    /\ cfg_loaded = InitialConfigs
    /\ cfg_last = NoConfigCall

\* Spec: an LLMHandler, constructed under any set of keys, is asked to
\* optimize code again and again.
Init ==
    /\ env \in SUBSET EnvKeys
    /\ clients = _initialize_clients(env)
    /\ LLMIdle
    /\ ExtIdle
    /\ ProcIdle
    /\ MetIdle
    /\ BatchIdle
    /\ StatsIdle
    /\ WritersIdle
    /\ ConfigIdle

Invoke ==
    /\ pc \in {"ready", "done"}
    /\ \E m \in ModelNames, c \in Codes : optimize_code(m, c)
    /\ UNCHANGED <<ext_vars, st_vars, cw_vars, cfg_vars, met_vars, batch_vars, proc_vars>>

Next ==
    \/ Invoke
    \/ _call_claude
    \/ _call_claude_sleep
    \/ _call_gemini
    \/ _call_openai
    \/ _call_deepseek

Spec == Init /\ [][Next]_vars

\* SpecExtract: the extractor on every text of at most MaxPieces pieces.
InitExtract ==
    /\ env = {}
    /\ clients = {}
    /\ LLMIdle
    /\ response_text = <<>>
    /\ extracted = _extract_code_from_response(<<>>)
    /\ ProcIdle
    /\ MetIdle
    /\ BatchIdle
    /\ StatsIdle
    /\ WritersIdle
    /\ ConfigIdle

NextExtract == \E p \in Pieces : Respond(p)

SpecExtract == InitExtract /\ [][NextExtract]_vars

\* SpecProcess: one process_file call on any file system and metrics table.
InitialTables ==
    { NoTable,
      BrokenTable,
      EmptyTable,
      [exists |-> TRUE, valid |-> TRUE, columns |-> required_columns,
       rows |-> <<[file_name |-> <<CodeFile>>, llm_model |-> GEMINI,
                   loc_before |-> 3, loc_after |-> 1, reduction |-> 6667]>>] }

\* Readable tables with a row and one required column missing.
DriftedTables ==
    { [exists |-> TRUE, valid |-> TRUE, columns |-> required_columns \ {c},
       rows |-> <<[file_name |-> <<CodeFile>>, llm_model |-> GEMINI,
                   loc_before |-> 3, loc_after |-> 1, reduction |-> 6667]>>] :
        c \in required_columns }

StaleBackup == <<"y">>

InitProcess ==
    /\ env \in {EnvKeys, {}}
    /\ clients = {}
    /\ LLMIdle
    /\ ExtIdle
    /\ \E src \in {NoFile} \cup {File(c) : c \in Codes},
          bak \in {NoFile, File(StaleBackup)},
          out \in {NoFile, File(<<"y", "\n">>)},
          outbak \in {NoFile, File(StaleBackup)} :
        files = [p \in Paths |->
                    IF p = "a.py" THEN src ELSE IF p = "a.py.bak" THEN bak
                    ELSE IF p = "out.py" THEN out ELSE outbak]
    /\ table \in InitialTables
    /\ p_pc = "idle"
    /\ p_in = MainCall(CodeFile, "", "")
    /\ p_loc = NoLocals
    /\ p_ret = "none"
    /\ MetIdle
    /\ BatchIdle
    /\ StatsIdle
    /\ WritersIdle
    /\ ConfigIdle

CallProcessFile ==
    /\ \E in \in ProcessInputs : process_file(in)
    /\ UNCHANGED batch_vars

NextProcess ==
    \/ CallProcessFile
    \/ process_file_read
    \/ process_file_optimize
    \/ _call_claude
    \/ _call_claude_sleep
    \/ _call_gemini
    \/ _call_openai
    \/ _call_deepseek
    \/ process_file_optimized
    \/ save_code_backup
    \/ save_code_write
    \/ save_code_restore
    \/ process_file_record

SpecProcess == InitProcess /\ [][NextProcess]_vars

\* SpecMetrics: one writer constructs MetricsRecorder and records, again and
\* again, on any table file.
InitMetrics ==
    /\ env = {}
    /\ clients = {}
    /\ LLMIdle
    /\ ExtIdle
    /\ files = [p \in Paths |-> NoFile]
    /\ table \in InitialTables \cup DriftedTables
    /\ p_pc = "idle"
    /\ p_in = MainCall(CodeFile, "", "")
    /\ p_loc = NoLocals
    /\ p_ret = "none"
    /\ MetIdle
    /\ BatchIdle
    /\ StatsIdle
    /\ WritersIdle
    /\ ConfigIdle

NextMetrics ==
    \/ ensure_excel_exists
    \/ record_metrics_call

SpecMetrics == InitMetrics /\ [][NextMetrics]_vars

\* SpecBatch: one process_batch_from_csv call on any CSV file of at most
\* MaxRows rows.
InitBatch ==
    /\ env \in {EnvKeys, {}}
    /\ clients = {}
    /\ LLMIdle
    /\ ExtIdle
    /\ \E src \in {NoFile, File(<<"x", "\n", "y">>)} :
        files = [p \in Paths |-> IF p = CodeFile THEN src ELSE NoFile]
    /\ table = NoTable
    /\ p_pc = "idle"
    /\ p_in = MainCall(CodeFile, "", "")
    /\ p_loc = NoLocals
    /\ p_ret = "none"
    /\ MetIdle
    /\ BatchIdle
    /\ StatsIdle
    /\ WritersIdle
    /\ ConfigIdle

NextBatch ==
    \/ process_batch_from_csv
    \/ batch_end
    \/ batch_skip_row
    \/ batch_process_row
    \/ process_file_read
    \/ process_file_optimize
    \/ _call_gemini
    \/ process_file_optimized
    \/ save_code_backup
    \/ save_code_write
    \/ save_code_restore
    \/ process_file_record
    \/ batch_row_done

SpecBatch == InitBatch /\ [][NextBatch]_vars

\* SpecStats: calculate_statistics on every list of at most MaxLen numbers.
\* SpecWriters: two record_metrics calls on the same readable or absent
\* Excel file, their reads and writes in any order.
InitWriters ==
    /\ env = {}
    /\ clients = {}
    /\ LLMIdle
    /\ ExtIdle
    /\ files = [p \in Paths |-> NoFile]
    /\ table \in {t \in InitialTables : ~(t.exists /\ ~t.valid)}
    /\ p_pc = "idle"
    /\ p_in = MainCall(CodeFile, "", "")
    /\ p_loc = NoLocals
    /\ p_ret = "none"
    /\ MetIdle
    /\ BatchIdle
    /\ StatsIdle
    /\ WritersIdle
    /\ ConfigIdle

NextWriters ==
    \/ WriterBegins
    \/ WriterWrites

SpecWriters == InitWriters /\ [][NextWriters]_vars

\* SpecConfig: load_config and get_model_config called in any order.
InitConfig ==
    /\ env = {}
    /\ clients = {}
    /\ LLMIdle
    /\ ExtIdle
    /\ ProcIdle
    /\ MetIdle
    /\ BatchIdle
    /\ StatsIdle
    /\ WritersIdle
    /\ ConfigIdle

NextConfig ==
    \/ CallLoadConfig
    \/ CallGetModelConfig

SpecConfig == InitConfig /\ [][NextConfig]_vars

InitStats ==
    /\ env = {}
    /\ clients = {}
    /\ LLMIdle
    /\ ExtIdle
    /\ ProcIdle
    /\ MetIdle
    /\ BatchIdle
    /\ StatsIdle
    /\ WritersIdle
    /\ ConfigIdle

NextStats == CallStatistics

SpecStats == InitStats /\ [][NextStats]_vars

====
